---- MODULE Spec2Model ----
(***************************************************************************)
(* WaylandPresentationMonitor (src/cpp/wayland_presentation.cpp).          *)
(*                                                                         *)
(* One monitor object shared by the threads of Threads.  Every member      *)
(* function is a sequence of steps, one per access to shared state, so     *)
(* that the interleavings of simulate_presented, simulate_discarded,       *)
(* set_callback and initialize are the ones the C++ memory model allows:   *)
(* the six statistics are std::atomic (each ++ or store is one step),      *)
(* callback_ is a plain std::function guarded by mutex_ in set_callback    *)
(* only.                                                                   *)
(***************************************************************************)
EXTENDS Integers, Sequences, FiniteSets, TLC

\* ------------------------------------------------------------------ bounds
NumThreads == 2
MaxCalls == 3
MaxSeqCalls == 4
MaxInitCalls == 3
MaxLiveCalls == 3

Threads == 1..NumThreads

\* ------------------------------------------------------- program constants
\* fb.refresh_ns = 16666666 (60Hz)
REFRESH_NS == 16666666
\* flags & 0x1: VSYNC
VSYNC == 1
\* flags & 0x8: ZERO_COPY
ZERO_COPY == 8

\* An empty std::function (callback_ after construction, or set_callback
\* called with an empty function).
NoCallback == 0
\* The callables a caller can register.
Callbacks == {1, 2}
\* What a racing read of callback_ can see besides the old and the new
\* value: a half-swapped std::function.
Torn == -1

\* Values an uninitialized object can hold: the constructor does not
\* initialize last_sequence_ and last_timestamp_ns_, simulate_discarded does
\* not initialize fb.timestamp_ns, fb.sequence, fb.refresh_ns and fb.flags.
Indeterminate == {0, 57005}

\* Arguments of initialize: <<wl_display, wl_surface, wp_presentation>>;
\* 0 is the null pointer.
InitializeArgs ==
    { <<0, 0, 0>>, <<1, 1, 1>>, <<2, 2, 2>>,
      <<0, 1, 1>>, <<1, 0, 1>>, <<1, 1, 0>> }

\* Arguments of simulate_presented: <<timestamp_ns, sequence, flags>>.
\* flags cover no bit, bit 0, bit 3, both, reserved bits only and reserved
\* bits next to bits 0 and 3.
PresentedArgs ==
    { <<100, 1, 1>>, <<200, 2, 8>>, <<300, 3, 9>>,
      <<400, 4, 0>>, <<500, 5, 6>>, <<600, 6, 15>> }
\* The arguments used when threads run concurrently, or next to initialize.
ConcurrentArgs == { <<100, 1, 1>>, <<200, 2, 8>> }

\* --------------------------------------------------------------- helpers
\* (mutant) a && b written for a & b
LogicalAnd(a, b) == IF a /= 0 /\ b /= 0 THEN 1 ELSE 0
RECURSIVE BitAnd(_, _)
\* a & b on unsigned integers
BitAnd(a, b) ==
    IF a = 0 \/ b = 0 THEN 0
    ELSE (a % 2) * (b % 2) + 2 * BitAnd(a \div 2, b \div 2)

\* operator bool of a scalar: non-zero
Truthy(x) == x /= 0

\* (mutant) an increment that saturates at 1
FetchAddLost(x) == IF x = 0 THEN 1 ELSE x
\* std::atomic<uint64_t>::operator++ (one read-modify-write).  The counters
\* are 64 bits wide and a run makes at most MaxSeqCalls calls, so the
\* increment never wraps.
FetchAdd(x) == x + 1

VARIABLES
    wl_display_, wl_surface_, wp_presentation_,
    callback_, mutex_,
    presented_count_, discarded_count_, vsync_count_, zero_copy_count_,
    last_sequence_, last_timestamp_ns_,
    pc,         \* per thread: the statement it is about to execute
    fb,         \* per thread: the local PresentationFeedback of simulate_*
    callback,   \* per thread: the parameter of set_callback
    initialize_log, \* history: arguments and return value of every initialize
    thrown,     \* history: some call has thrown std::bad_function_call
    log,        \* what the registered callables have recorded, in order
    ingested,   \* history: the event of every simulate_* call, in call order,
                \* with the callable registered when the call started
    calls,      \* history: number of calls made
    crashed     \* the process has died on a torn std::function

counters == <<presented_count_, discarded_count_, vsync_count_,
              zero_copy_count_, last_sequence_, last_timestamp_ns_>>
handles == <<wl_display_, wl_surface_, wp_presentation_>>
locals == <<pc, fb, callback>>
history == <<initialize_log, thrown, log, ingested, calls, crashed>>
vars == <<handles, callback_, mutex_, counters, locals, history>>

NoFeedback == [timestamp_ns |-> 0, sequence |-> 0, refresh_ns |-> 0,
               flags |-> 0, presented |-> FALSE]

\* Constructor: handles null, the four counters 0; last_sequence_ and
\* last_timestamp_ns_ are not in the initializer list.
Init ==
    /\ wl_display_ = 0
    /\ wl_surface_ = 0
    /\ wp_presentation_ = 0
    /\ callback_ = NoCallback
    /\ mutex_ = 0
    /\ presented_count_ = 0
    /\ discarded_count_ = 0
    /\ vsync_count_ = 0
    /\ zero_copy_count_ = 0
    /\ last_sequence_ \in Indeterminate
    /\ last_timestamp_ns_ \in Indeterminate
    /\ pc = [t \in Threads |-> "idle"]
    /\ fb = [t \in Threads |-> NoFeedback]
    /\ callback = [t \in Threads |-> NoCallback]
    /\ initialize_log = <<>>
    /\ thrown = FALSE
    /\ log = <<>>
    /\ ingested = <<>>
    /\ calls = 0
    /\ crashed = FALSE

Goto(t, label) == pc' = [pc EXCEPT ![t] = label]

\* The function returns to its caller: its locals and parameters are gone.
ReturnToCaller(t) ==
    /\ pc' = [pc EXCEPT ![t] = "idle"]
    /\ fb' = [fb EXCEPT ![t] = NoFeedback]
    /\ callback' = [callback EXCEPT ![t] = NoCallback]

\* ------------------------------------------------------------- initialize
\* (mutant) wp_presentation_ left out of the returned conjunction
HandlesNonNullPartial == Truthy(wl_display_) /\ Truthy(wl_surface_)
\* wl_display_ && wl_surface_ && wp_presentation_
HandlesNonNull ==
    Truthy(wl_display_) /\ Truthy(wl_surface_) /\ Truthy(wp_presentation_)

\* (mutant) the handles are stored only when all three are non-null
initialize_keep(t, wl_display, wl_surface, wp_presentation) ==
    /\ ~crashed
    /\ pc[t] = "idle"
    /\ LET ok == Truthy(wl_display) /\ Truthy(wl_surface)
                 /\ Truthy(wp_presentation)
       IN /\ wl_display_' = IF ok THEN wl_display ELSE wl_display_
          /\ wl_surface_' = IF ok THEN wl_surface ELSE wl_surface_
          /\ wp_presentation_' =
                IF ok THEN wp_presentation ELSE wp_presentation_
          /\ initialize_log' =
                Append(initialize_log,
                       [args |-> <<wl_display, wl_surface, wp_presentation>>,
                        ret |-> ok])
    /\ calls' = calls + 1
    /\ UNCHANGED <<callback_, mutex_, counters, locals, thrown, log,
                   ingested, crashed>>

\* Stores the three handles and returns whether all three are non-null.
initialize(t, wl_display, wl_surface, wp_presentation) ==
    /\ ~crashed
    /\ pc[t] = "idle"
    /\ wl_display_' = wl_display
    /\ wl_surface_' = wl_surface
    /\ wp_presentation_' = wp_presentation
    /\ initialize_log' =
          Append(initialize_log,
                 [args |-> <<wl_display, wl_surface, wp_presentation>>,
                  ret |-> HandlesNonNull'])
    /\ calls' = calls + 1
    /\ UNCHANGED <<callback_, mutex_, counters, locals, thrown, log,
                   ingested, crashed>>

\* ----------------------------------------------------------- set_callback
set_callback(t, c) ==
    /\ ~crashed
    /\ pc[t] = "idle"
    /\ callback' = [callback EXCEPT ![t] = c]
    /\ Goto(t, "lock")
    /\ calls' = calls + 1
    /\ UNCHANGED <<handles, callback_, mutex_, counters, fb, initialize_log,
                   thrown, log, ingested, crashed>>

\* std::lock_guard<std::mutex> lock(mutex_): blocks while another thread
\* holds mutex_.  With the lock held the assignment callback_ = callback
\* starts: a std::function is several words, the assignment is not one store.
Lock(t) ==
    /\ ~crashed
    /\ pc[t] \in {"lock", "cb_lock"}
    /\ mutex_ = 0
    /\ mutex_' = t
    /\ Goto(t, IF pc[t] = "lock" THEN "assigning" ELSE "cb_assigning")
    /\ UNCHANGED <<handles, callback_, counters, fb, callback, history>>

\* (mutant) if (!callback_) callback_ = callback: a registered callable is
\* kept, the new one is dropped
AssignIfEmpty(t) ==
    /\ ~crashed
    /\ pc[t] \in {"assigning", "cb_assigning"}
    /\ callback_' = IF callback_ = NoCallback THEN callback[t] ELSE callback_
    /\ Goto(t, IF pc[t] = "assigning" THEN "unlock" ELSE "cb_unlock")
    /\ UNCHANGED <<handles, mutex_, counters, fb, callback, history>>

\* callback_ = callback is complete
Assign(t) ==
    /\ ~crashed
    /\ pc[t] \in {"assigning", "cb_assigning"}
    /\ callback_' = callback[t]
    /\ Goto(t, IF pc[t] = "assigning" THEN "unlock" ELSE "cb_unlock")
    /\ UNCHANGED <<handles, mutex_, counters, fb, callback, history>>

\* set_callback returns into the callable that called it: the ingest call
\* that invoked the callable is still in progress and keeps its fb.
ReturnToCallable(t) ==
    /\ pc' = [pc EXCEPT ![t] = "in_callback"]
    /\ callback' = [callback EXCEPT ![t] = NoCallback]
    /\ fb' = fb

\* (mutant) mutex_.lock() with no matching unlock on return
UnlockForgotten(t) ==
    /\ ~crashed
    /\ pc[t] \in {"unlock", "cb_unlock"}
    /\ mutex_' = mutex_
    /\ IF pc[t] = "unlock" THEN ReturnToCaller(t) ELSE ReturnToCallable(t)
    /\ UNCHANGED <<handles, callback_, counters, history>>

\* ~lock_guard and return
Unlock(t) ==
    /\ ~crashed
    /\ pc[t] \in {"unlock", "cb_unlock"}
    /\ mutex_' = 0
    /\ IF pc[t] = "unlock" THEN ReturnToCaller(t) ELSE ReturnToCallable(t)
    /\ UNCHANGED <<handles, callback_, counters, history>>

\* The callable invoked by t's ingest call calls set_callback(c) on the same
\* monitor, on the same thread (line 66 entered from inside lines 110 / 121).
set_callback_from_callback(t, c) ==
    /\ ~crashed
    /\ pc[t] = "in_callback"
    /\ callback' = [callback EXCEPT ![t] = c]
    /\ Goto(t, "cb_lock")
    /\ calls' = calls + 1
    /\ UNCHANGED <<handles, callback_, mutex_, counters, fb, initialize_log,
                   thrown, log, ingested, crashed>>

\* A set_callback is in the middle of writing callback_.
Writing == \E w \in Threads : pc[w] \in {"assigning", "cb_assigning"}
Writer == CHOOSE w \in Threads : pc[w] \in {"assigning", "cb_assigning"}

\* ----------------------------------------------------- simulate_presented
\* (mutant) presented_count_ = presented_count_ + 1 on a plain integer: the
\* update is lost when another thread is inside a call.
PresentedCountRacy(t) ==
    IF \E u \in Threads \ {t} : pc[u] /= "idle"
    THEN presented_count_ ELSE presented_count_ + 1
\* (mutant) if (wl_display_ && wl_surface_ && wp_presentation_)
\* presented_count_++: events are counted on an initialized monitor only
PresentedCountIfReady(t) ==
    IF HandlesNonNull THEN FetchAdd(presented_count_) ELSE presented_count_
\* (mutant) presented_count_++ moved behind the flag counters: it has not
\* been executed when they are
PresentedCountDeferred(t) == presented_count_
\* presented_count_++
PresentedCount(t) == FetchAdd(presented_count_)

\* (mutant) fb.flags = flags & 0x9: only the two known bits are kept
PresentedFeedbackKnownBits(timestamp_ns, sequence, flags) ==
    [timestamp_ns |-> timestamp_ns, sequence |-> sequence,
     refresh_ns |-> REFRESH_NS,
     flags |-> BitAnd(flags, VSYNC) + BitAnd(flags, ZERO_COPY),
     presented |-> TRUE]
\* Lines 95-100: the local fb is filled from the arguments.
PresentedFeedback(timestamp_ns, sequence, flags) ==
    [timestamp_ns |-> timestamp_ns, sequence |-> sequence,
     refresh_ns |-> REFRESH_NS, flags |-> flags, presented |-> TRUE]

\* (mutant) presented_count_ and vsync_count_ are updated by the same
\* step, so no state has the one counting the event without the other
simulate_presented_atomic(t, timestamp_ns, sequence, flags) ==
    /\ ~crashed
    /\ pc[t] = "idle"
    /\ fb' = [fb EXCEPT ![t] = PresentedFeedback(timestamp_ns, sequence, flags)]
    /\ ingested' = Append(ingested, [fb |-> fb'[t], registered |-> callback_])
    /\ calls' = calls + 1
    /\ presented_count_' = PresentedCount(t)
    /\ vsync_count_' = IF Truthy(BitAnd(flags, VSYNC))
                       THEN FetchAdd(vsync_count_) ELSE vsync_count_
    /\ Goto(t, "last_timestamp_ns")
    /\ UNCHANGED <<handles, callback_, mutex_, discarded_count_,
                   zero_copy_count_, last_sequence_, last_timestamp_ns_,
                   callback, initialize_log, thrown, log, crashed>>

\* Lines 95-102: the local fb is filled from the arguments, then
\* presented_count_++ (the first access to shared state).
simulate_presented(t, timestamp_ns, sequence, flags) ==
    /\ ~crashed
    /\ pc[t] = "idle"
    /\ fb' = [fb EXCEPT ![t] = PresentedFeedback(timestamp_ns, sequence, flags)]
    /\ ingested' = Append(ingested, [fb |-> fb'[t], registered |-> callback_])
    /\ calls' = calls + 1
    /\ presented_count_' = PresentedCount(t)
    /\ Goto(t, "last_timestamp_ns")
    /\ UNCHANGED <<handles, callback_, mutex_, discarded_count_, vsync_count_,
                   zero_copy_count_, last_sequence_, last_timestamp_ns_,
                   callback, initialize_log, thrown, log, crashed>>

\* (mutant) the callback is dispatched first: the remaining updates of
\* the event are not applied before it runs
LastTimestampSkipped(t) ==
    /\ ~crashed
    /\ pc[t] = "last_timestamp_ns"
    /\ Goto(t, "if_callback")
    /\ UNCHANGED <<handles, callback_, mutex_, counters, fb, callback, history>>

\* last_timestamp_ns_ = timestamp_ns
LastTimestamp(t) ==
    /\ ~crashed
    /\ pc[t] = "last_timestamp_ns"
    /\ last_timestamp_ns_' = fb[t].timestamp_ns
    /\ Goto(t, "last_sequence")
    /\ UNCHANGED <<handles, callback_, mutex_, presented_count_,
                   discarded_count_, vsync_count_, zero_copy_count_,
                   last_sequence_, fb, callback, history>>

\* last_sequence_ = sequence
LastSequence(t) ==
    /\ ~crashed
    /\ pc[t] = "last_sequence"
    /\ last_sequence_' = fb[t].sequence
    /\ Goto(t, "vsync_count")
    /\ UNCHANGED <<handles, callback_, mutex_, presented_count_,
                   discarded_count_, vsync_count_, zero_copy_count_,
                   last_timestamp_ns_, fb, callback, history>>

\* if (flags & 0x1) vsync_count_++
VsyncCount(t) ==
    /\ ~crashed
    /\ pc[t] = "vsync_count"
    /\ vsync_count_' = IF Truthy(BitAnd(fb[t].flags, VSYNC))
                       THEN FetchAdd(vsync_count_) ELSE vsync_count_
    /\ Goto(t, "zero_copy_count")
    /\ UNCHANGED <<handles, callback_, mutex_, presented_count_,
                   discarded_count_, zero_copy_count_, last_sequence_,
                   last_timestamp_ns_, fb, callback, history>>

\* (mutant) if (callback_ && (flags & 0x8)) zero_copy_count_++: the count
\* depends on a callable being registered
ZeroCopyCountIfCallback(t) ==
    /\ ~crashed
    /\ pc[t] = "zero_copy_count"
    /\ zero_copy_count_' = IF /\ callback_ /= NoCallback
                              /\ Truthy(BitAnd(fb[t].flags, ZERO_COPY))
                           THEN FetchAdd(zero_copy_count_)
                           ELSE zero_copy_count_
    /\ Goto(t, "if_callback")
    /\ UNCHANGED <<handles, callback_, mutex_, presented_count_,
                   discarded_count_, vsync_count_, last_sequence_,
                   last_timestamp_ns_, fb, callback, history>>

\* if (flags & 0x8) zero_copy_count_++
ZeroCopyCount(t) ==
    /\ ~crashed
    /\ pc[t] = "zero_copy_count"
    /\ zero_copy_count_' = IF Truthy(BitAnd(fb[t].flags, ZERO_COPY))
                           THEN FetchAdd(zero_copy_count_)
                           ELSE zero_copy_count_
    /\ Goto(t, "if_callback")
    /\ UNCHANGED <<handles, callback_, mutex_, presented_count_,
                   discarded_count_, vsync_count_, last_sequence_,
                   last_timestamp_ns_, fb, callback, history>>

\* ----------------------------------------------------- simulate_discarded
\* (mutant) the discarded path also records fb.sequence as last sequence
simulate_discarded_last(t, junk) ==
    /\ ~crashed
    /\ pc[t] = "idle"
    /\ fb' = [fb EXCEPT ![t] = [junk EXCEPT !.presented = FALSE]]
    /\ ingested' = Append(ingested, [fb |-> fb'[t], registered |-> callback_])
    /\ calls' = calls + 1
    /\ discarded_count_' = FetchAdd(discarded_count_)
    /\ last_sequence_' = junk.sequence
    /\ Goto(t, "if_callback")
    /\ UNCHANGED <<handles, callback_, mutex_, presented_count_, vsync_count_,
                   zero_copy_count_, last_timestamp_ns_,
                   callback, initialize_log, thrown, log, crashed>>

\* Lines 115-118: only fb.presented is assigned, the other four fields of
\* the local keep whatever the stack held (junk); then discarded_count_++.
simulate_discarded(t, junk) ==
    /\ ~crashed
    /\ pc[t] = "idle"
    /\ fb' = [fb EXCEPT ![t] = [junk EXCEPT !.presented = FALSE]]
    /\ ingested' = Append(ingested, [fb |-> fb'[t], registered |-> callback_])
    /\ calls' = calls + 1
    /\ discarded_count_' = FetchAdd(discarded_count_)
    /\ Goto(t, "if_callback")
    /\ UNCHANGED <<handles, callback_, mutex_, presented_count_, vsync_count_,
                   zero_copy_count_, last_sequence_, last_timestamp_ns_,
                   callback, initialize_log, thrown, log, crashed>>

\* ------------------------------------------- if (callback_) callback_(fb)
\* (mutant) the test inverted
OperatorBoolNegated(f) == f = NoCallback
\* std::function::operator bool: the function holds a callable
OperatorBool(f) == f /= NoCallback

\* What an unlocked read of callback_ can return: its value, or, while a
\* set_callback is assigning it a different value (a data race), the old
\* value, the new value or a mix of both.
ReadCallback ==
    IF Writing /\ callback[Writer] /= callback_
    THEN {callback_, callback[Writer], Torn}
    ELSE {callback_}

\* if (callback_): std::function::operator bool, read without mutex_; the
\* function returns when it is false.  A half-written callback_ tests as
\* the old or as the new value does.
IfCallback(t) ==
    /\ ~crashed
    /\ pc[t] = "if_callback"
    /\ \E seen \in ReadCallback \ {Torn} :
          IF OperatorBool(seen)
          THEN Goto(t, "call_callback") /\ UNCHANGED <<fb, callback>>
          ELSE ReturnToCaller(t)
    /\ UNCHANGED <<handles, callback_, mutex_, counters, history>>

\* callback_(fb): a second read of callback_ without mutex_.  An empty
\* std::function throws std::bad_function_call, which leaves the function;
\* a torn one jumps through a stale pointer.
CallCallback(t) ==
    /\ ~crashed
    /\ pc[t] = "call_callback"
    /\ \E target \in ReadCallback :
          \/ /\ target = NoCallback
             /\ thrown' = TRUE
             /\ ReturnToCaller(t)
             /\ UNCHANGED <<log, crashed>>
          \/ /\ target = Torn
             /\ crashed' = TRUE
             /\ UNCHANGED <<locals, thrown, log>>
          \/ /\ target \in Callbacks
             /\ log' = Append(log, [callback |-> target, fb |-> fb[t]])
             /\ Goto(t, "in_callback")
             /\ UNCHANGED <<fb, callback, thrown, crashed>>
    /\ UNCHANGED <<handles, callback_, mutex_, counters, initialize_log,
                   ingested, calls>>

\* The callable returns, and with it simulate_presented / simulate_discarded.
Return(t) ==
    /\ ~crashed
    /\ pc[t] = "in_callback"
    /\ ReturnToCaller(t)
    /\ UNCHANGED <<handles, callback_, mutex_, counters, history>>

\* ------------------------------------------------------------------- Next
\* What simulate_discarded's fb can hold: fb.presented is false, the four
\* fields left uninitialized are indeterminate (here: all zero, or all junk).
JunkFeedback ==
    { [timestamp_ns |-> v, sequence |-> v, refresh_ns |-> v, flags |-> v,
       presented |-> FALSE] : v \in Indeterminate }

\* One statement of a call in progress.
Step(t) ==
    \/ LastTimestamp(t)
    \/ LastSequence(t)
    \/ VsyncCount(t)
    \/ ZeroCopyCount(t)
    \/ IfCallback(t)
    \/ CallCallback(t)
    \/ Return(t)
    \/ Lock(t)
    \/ Assign(t)
    \/ Unlock(t)

AllIdle == \A t \in Threads : pc[t] = "idle"

\* Threads call the monitor concurrently.
Next ==
    \E t \in Threads :
        \/ /\ calls < MaxCalls
           /\ \/ \E a \in ConcurrentArgs :
                    simulate_presented(t, a[1], a[2], a[3])
              \/ \E j \in JunkFeedback : simulate_discarded(t, j)
              \/ \E c \in {NoCallback, 1} : set_callback(t, c)
        \/ Step(t)

Spec == Init /\ [][Next]_vars

\* One caller at a time: a call starts when the previous one has returned.
NextSeq ==
    \E t \in Threads :
        \/ /\ calls < MaxSeqCalls
           /\ AllIdle
           /\ t = 1
           /\ \/ \E a \in PresentedArgs :
                    simulate_presented(t, a[1], a[2], a[3])
              \/ \E j \in JunkFeedback : simulate_discarded(t, j)
              \/ \E c \in Callbacks \cup {NoCallback} : set_callback(t, c)
        \/ Step(t)

SpecSeq == Init /\ [][NextSeq]_vars

\* One caller at a time, which also calls initialize.
NextInit ==
    \E t \in Threads :
        \/ /\ calls < MaxInitCalls
           /\ AllIdle
           /\ t = 1
           /\ \/ \E a \in ConcurrentArgs :
                    simulate_presented(t, a[1], a[2], a[3])
              \/ \E j \in JunkFeedback : simulate_discarded(t, j)
              \/ \E c \in {NoCallback, 1} : set_callback(t, c)
              \/ \E a \in InitializeArgs : initialize(t, a[1], a[2], a[3])
        \/ Step(t)

SpecInit == Init /\ [][NextInit]_vars

\* Whether a call returns does not depend on the event's values: one
\* presented event and one content of the discarded event's fields.
LiveArgs == {<<100, 1, 1>>}
LiveJunk == { j \in JunkFeedback : j.flags = 0 }

\* Threads call the monitor concurrently, and a callable may call
\* set_callback on the monitor that is invoking it.
NextLive ==
    \E t \in Threads :
        \/ /\ calls < MaxLiveCalls
           /\ \/ \E a \in LiveArgs :
                    simulate_presented(t, a[1], a[2], a[3])
              \/ \E j \in LiveJunk : simulate_discarded(t, j)
              \/ \E c \in {NoCallback, 1} : set_callback(t, c)
              \/ \E c \in {NoCallback, 1} : set_callback_from_callback(t, c)
        \/ Step(t)

\* Every thread that is inside a call is scheduled again, and every callable
\* returns: each statement of a call in progress, the return of the callable
\* included, is eventually executed if it stays executable.
SpecLive == Init /\ [][NextLive]_vars /\ \A t \in Threads : WF_vars(Step(t))

\* ============================================================== properties
\* Bit 0 (vsync-aligned) and bit 3 (zero-copy) of a flags word.
Bit0(flags) == flags % 2 = 1
Bit3(flags) == (flags \div 8) % 2 = 1

IsPresented(e) == e.presented
IsDiscarded(e) == ~e.presented
IsVsync(e) == e.presented /\ Bit0(e.flags)
IsZeroCopy(e) == e.presented /\ Bit3(e.flags)

\* Number of ingested events that satisfy P.
NumIngested(P(_)) ==
    Cardinality({ i \in DOMAIN ingested : P(ingested[i].fb) })

\* Threads inside simulate_presented that have not yet executed the
\* statements at the given labels, and whose event satisfies P.
Pending(labels, P(_)) ==
    Cardinality({ t \in Threads : pc[t] \in labels /\ P(fb[t]) })

BeforeVsync == {"last_timestamp_ns", "last_sequence", "vsync_count"}
BeforeZeroCopy == BeforeVsync \cup {"zero_copy_count"}
BeforeCall == BeforeZeroCopy \cup {"if_callback", "call_callback"}

\* ---------------------------------------------------------------------- C1
C1_Exact ==
    AllIdle =>
        /\ presented_count_ = NumIngested(IsPresented)
        /\ discarded_count_ = NumIngested(IsDiscarded)
        /\ vsync_count_ = NumIngested(IsVsync)
        /\ zero_copy_count_ = NumIngested(IsZeroCopy)

C1_NonDecreasing ==
    /\ presented_count_' >= presented_count_
    /\ discarded_count_' >= discarded_count_
    /\ vsync_count_' >= vsync_count_
    /\ zero_copy_count_' >= zero_copy_count_

\* C1: over any sequence of simulate_presented / simulate_discarded calls no
\* counter ever decreases, and whenever the calls made so far have returned,
\* presented_count, discarded_count, vsync_count and zero_copy_count equal
\* the number of ingested events that are presented, discarded, presented
\* with flag bit 0, presented with flag bit 3.
C1_CounterMonotonicity == [](C1_Exact) /\ [][C1_NonDecreasing]_vars

C1_Witness ==
    /\ AllIdle
    /\ presented_count_ = 2
    /\ discarded_count_ = 1
    /\ vsync_count_ = 1
    /\ zero_copy_count_ = 2

\* ---------------------------------------------------------------------- C2
\* C2: with threads ingesting concurrently no increment is lost: in every
\* state each counter equals the number of matching events ingested so far,
\* less the events of calls in progress that have not reached the counter's
\* increment; so once all calls have returned every counter equals the
\* number of matching calls.
C2_NoLostUpdate ==
    /\ presented_count_ = NumIngested(IsPresented)
    /\ discarded_count_ = NumIngested(IsDiscarded)
    /\ vsync_count_ = NumIngested(IsVsync) - Pending(BeforeVsync, IsVsync)
    /\ zero_copy_count_ =
          NumIngested(IsZeroCopy) - Pending(BeforeZeroCopy, IsZeroCopy)

\* Two simulate_presented calls are in progress at once and both have
\* incremented presented_count_.
C2_Witness ==
    /\ presented_count_ = 2
    /\ \E t, u \in Threads :
          /\ t /= u
          /\ pc[t] \in BeforeCall /\ fb[t].presented
          /\ pc[u] \in BeforeCall /\ fb[u].presented

\* ---------------------------------------------------------------------- C3
\* Thread t reads callback_ in simulate_presented / simulate_discarded.
ReadsCallbackSlot(t) == IfCallback(t) \/ CallCallback(t)

\* C3: no simulate_* call reads or invokes callback_ while a set_callback
\* is in the middle of writing it.
C3_CallbackAccessExclusive ==
    [][\A t \in Threads : ReadsCallbackSlot(t) => ~Writing]_vars

\* ---------------------------------------------------------------------- C4
\* C4: no operation throws; in particular a simulate_* call that has passed
\* its `if (callback_)` check and is about to invoke callback_, while no
\* set_callback is writing it, finds callback_ non-empty (the invocation
\* does not throw std::bad_function_call).
C4_NoEmptyInvoke ==
    \A t \in Threads :
        (pc[t] = "call_callback" /\ ~Writing) => callback_ /= NoCallback

\* ---------------------------------------------------------------------- C5
\* Thread t takes a step of a simulate_discarded call: the call itself
\* (through discarded_count_++), or a later statement of it.
DiscardedStep(t) ==
    /\ pc'[t] /= pc[t]
    /\ IF pc[t] = "idle"
       THEN pc'[t] = "if_callback" /\ ~fb'[t].presented
       ELSE pc[t] \in {"if_callback", "call_callback", "in_callback"}
            /\ ~fb[t].presented

\* C5: a simulate_discarded call increments discarded_count by one, once,
\* and none of its steps changes presented_count, vsync_count,
\* zero_copy_count, last_sequence or last_timestamp_ns.
C5_DiscardIsolation ==
    [][\A t \in Threads :
          DiscardedStep(t) =>
              /\ UNCHANGED <<presented_count_, vsync_count_, zero_copy_count_,
                             last_sequence_, last_timestamp_ns_>>
              /\ discarded_count_' =
                    discarded_count_ + (IF pc[t] = "idle" THEN 1 ELSE 0)]_vars

\* A discarded event was ingested after a presented one, and the
\* last-presented fields still show the presented one.
C5_Witness ==
    /\ AllIdle
    /\ Len(ingested) = 2
    /\ ingested[1].fb.presented
    /\ ~ingested[2].fb.presented
    /\ discarded_count_ = 1
    /\ last_sequence_ = ingested[1].fb.sequence
    /\ last_timestamp_ns_ = ingested[1].fb.timestamp_ns

\* ---------------------------------------------------------------------- C6
\* Thread t takes a step of a simulate_presented call.
PresentedStep(t) ==
    /\ pc'[t] /= pc[t]
    /\ IF pc[t] = "idle"
       THEN pc'[t] = "last_timestamp_ns"
       ELSE pc[t] \in BeforeCall \cup {"in_callback"} /\ fb[t].presented

\* C6: within a simulate_presented call vsync_count changes only at its
\* vsync statement, by one if bit 0 of flags is set and not at all
\* otherwise; zero_copy_count changes only at its zero-copy statement, by one
\* if bit 3 of flags is set and not at all otherwise; no other bit of flags
\* matters.
C6_FlagDecomposition ==
    [][\A t \in Threads :
          PresentedStep(t) =>
              /\ vsync_count_' = vsync_count_ +
                    (IF pc[t] = "vsync_count" /\ Bit0(fb[t].flags)
                     THEN 1 ELSE 0)
              /\ zero_copy_count_' = zero_copy_count_ +
                    (IF pc[t] = "zero_copy_count" /\ Bit3(fb[t].flags)
                     THEN 1 ELSE 0)]_vars

\* The first call ingested flags = 0b1001 and has updated both counters.
C6_Witness ==
    \E t \in Threads :
        /\ pc[t] = "if_callback"
        /\ fb[t].presented
        /\ fb[t].flags = 9
        /\ Len(ingested) = 1
        /\ vsync_count_ = 1
        /\ zero_copy_count_ = 1

\* ---------------------------------------------------------------------- C7
\* The step is an initialize call.
InitializeStep == Len(initialize_log') = Len(initialize_log) + 1
LastInitialize == initialize_log[Len(initialize_log)]
AllNonNull(args) == args[1] /= 0 /\ args[2] /= 0 /\ args[3] /= 0

\* C7: initialize returns true iff its three arguments are all non-null, and
\* whatever it returns it leaves the four counters, last_sequence,
\* last_timestamp_ns and the registered callback as they were.
C7_InitializationGate ==
    [][InitializeStep =>
          /\ LastInitialize'.ret = AllNonNull(LastInitialize'.args)
          /\ UNCHANGED <<counters, callback_>>]_vars

\* initialize has returned false on a monitor with a callback registered
\* and an event counted.
C7_Witness ==
    /\ initialize_log /= <<>>
    /\ ~LastInitialize.ret
    /\ callback_ /= NoCallback
    /\ presented_count_ = 1

\* ---------------------------------------------------------------------- C8
\* The monitor is wired to its three native resources: the only lifecycle
\* state the class keeps is the three handles.
Ready == wl_display_ /= 0 /\ wl_surface_ /= 0 /\ wp_presentation_ /= 0

C9_FreshMonitorIsZero ==
    calls = 0 =>
        /\ wl_display_ = 0 /\ wl_surface_ = 0 /\ wp_presentation_ = 0
        /\ callback_ = NoCallback
        /\ presented_count_ = 0 /\ discarded_count_ = 0
        /\ vsync_count_ = 0 /\ zero_copy_count_ = 0
        /\ last_sequence_ = 0 /\ last_timestamp_ns_ = 0

\* --------------------------------------------------------------------- C10
\* What the callables must have recorded for a sequence of ingested events:
\* one entry per event ingested with a callable registered, in order.
RECURSIVE Delivered(_)
Delivered(events) ==
    IF events = <<>> THEN <<>>
    ELSE LET e == events[Len(events)]
             front == Delivered(SubSeq(events, 1, Len(events) - 1))
         IN IF e.registered = NoCallback THEN front
            ELSE Append(front, [callback |-> e.registered, fb |-> e.fb])

\* The events of the calls that have reached (or passed) their callback
\* invocation: all of them, but the last one while its call is still on
\* its way there.
Dispatched ==
    IF \E t \in Threads : pc[t] \in BeforeCall
    THEN SubSeq(ingested, 1, Len(ingested) - 1)
    ELSE ingested

\* The example of the specification: presented(100, 1, 1), discarded(),
\* presented(200, 2, 8), all with a callable registered.
IsExample ==
    /\ Len(ingested) = 3
    /\ \A i \in 1..3 : ingested[i].registered /= NoCallback
    /\ ingested[1].fb.presented /\ ingested[1].fb.timestamp_ns = 100
    /\ ingested[1].fb.sequence = 1 /\ ingested[1].fb.flags = 1
    /\ ~ingested[2].fb.presented
    /\ ingested[3].fb.presented /\ ingested[3].fb.timestamp_ns = 200
    /\ ingested[3].fb.sequence = 2 /\ ingested[3].fb.flags = 8

ExampleResult ==
    /\ Len(log) = 3
    /\ \A i \in 1..3 : log[i].fb = ingested[i].fb
    /\ ~log[2].fb.presented
    /\ presented_count_ = 2 /\ discarded_count_ = 1
    /\ vsync_count_ = 1 /\ zero_copy_count_ = 1
    /\ last_sequence_ = 2 /\ last_timestamp_ns_ = 200

\* C10: with calls made one after another, the registered callable is
\* invoked once per ingested event, before the call returns and in ingestion
\* order; the example sequence leaves a log of its three events in order and
\* the counters 2, 1, 1, 1 with last_sequence 2 and last_timestamp_ns 200.
C10_CallbackDeliveryOrder ==
    /\ log = Delivered(Dispatched)
    /\ (AllIdle /\ IsExample) => ExampleResult

C10_Witness == AllIdle /\ IsExample /\ ExampleResult

\* --------------------------------------------------------------------- C11
\* The presented events ingested so far.
PresentedEvents == SelectSeq(ingested, LAMBDA e : e.fb.presented)

\* C11: with calls made one after another, while a call is invoking its
\* callable (from the invocation until the callable returns) the accessors
\* already include the event it is called with: the four counters count
\* every ingested event, this one included, and for a presented event
\* last_sequence and last_timestamp_ns are this event's.
C11_CallbackSeesUpdates ==
    \A t \in Threads :
        pc[t] \in {"call_callback", "in_callback"} =>
            /\ fb[t] = ingested[Len(ingested)].fb
            /\ presented_count_ = NumIngested(IsPresented)
            /\ discarded_count_ = NumIngested(IsDiscarded)
            /\ vsync_count_ = NumIngested(IsVsync)
            /\ zero_copy_count_ = NumIngested(IsZeroCopy)
            /\ fb[t].presented =>
                  /\ last_sequence_ = fb[t].sequence
                  /\ last_timestamp_ns_ = fb[t].timestamp_ns

\* The callable is running for a second presented event with both flag
\* bits set, and reads counters that include it.
C11_Witness ==
    \E t \in Threads :
        /\ pc[t] = "in_callback"
        /\ fb[t].presented /\ fb[t].flags = 9
        /\ presented_count_ = 2
        /\ vsync_count_ = 1
        /\ zero_copy_count_ = 2
        /\ last_sequence_ = 3

\* --------------------------------------------------------------------- C12
\* set_callback(c) returns with c in the slot, whatever was there before.
SetCallbackReturns ==
    \A t \in Threads :
        (pc[t] = "unlock" /\ pc'[t] = "idle") => callback_' = callback[t]

\* Only the assignment inside set_callback changes the slot.
OnlySetCallbackReplaces ==
    callback_' /= callback_ => \E t \in Threads : pc[t] = "assigning"

\* A callable is invoked only by the dispatch statement of an ingest call,
\* once, and it is the callable that was in the slot when the call started.
InvokesRegistered ==
    log' /= log =>
        \E t \in Threads :
            /\ pc[t] = "call_callback" /\ pc'[t] = "in_callback"
            /\ ingested[Len(ingested)].registered /= NoCallback
            /\ log' = Append(log,
                   [callback |-> ingested[Len(ingested)].registered,
                    fb |-> fb[t]])

\* After the invocation the call only returns.
InvokesOnce ==
    \A t \in Threads :
        pc[t] = "in_callback" => (log' = log /\ pc'[t] \in {"in_callback", "idle"})

\* C12: with calls made one after another there is at most one active
\* callback: set_callback(c) returns with c registered (empty included),
\* nothing else replaces it, and an ingest call invokes at most one callable,
\* the one registered by the last set_callback that returned before the call
\* started, and none if that was the empty callable or there was none.
C12_SingleActiveCallback ==
    [][/\ SetCallbackReturns
       /\ OnlySetCallbackReplaces
       /\ InvokesRegistered
       /\ InvokesOnce]_vars

\* Callable 1 was invoked for one event, then replaced by callable 2, which
\* was invoked for the next event.
C12_Witness ==
    /\ AllIdle
    /\ Len(log) = 2
    /\ log[1].callback = 1
    /\ log[2].callback = 2
    /\ callback_ = 2

\* --------------------------------------------------------------------- C13
\* What a monitor that never had a callable shows after the events ingested
\* so far: each counter counts its events, the last-presented fields are
\* those of the most recent presented event.
SameAsWithoutCallback ==
    /\ presented_count_ = NumIngested(IsPresented)
    /\ discarded_count_ = NumIngested(IsDiscarded)
    /\ vsync_count_ = NumIngested(IsVsync)
    /\ zero_copy_count_ = NumIngested(IsZeroCopy)
    /\ PresentedEvents /= <<>> =>
          /\ last_sequence_ = PresentedEvents[Len(PresentedEvents)].fb.sequence
          /\ last_timestamp_ns_ =
                PresentedEvents[Len(PresentedEvents)].fb.timestamp_ns

\* Registering a callable, testing the slot, invoking the callable and
\* returning from it leave the six observable values alone.
DispatchKeepsCounters ==
    counters' /= counters =>
        \/ ingested' /= ingested
        \/ \E t \in Threads : pc[t] \in BeforeZeroCopy

\* C13: after every call of a sequence of calls made one after another, the
\* four counters, last_sequence and last_timestamp_ns are determined by the
\* events ingested alone, the same whether a callable, another callable or
\* none was registered for each of them, and no call ends in an error.
C13_NoCallbackEquivalence ==
    /\ [](AllIdle => SameAsWithoutCallback)
    /\ [](~thrown /\ ~crashed)
    /\ [][DispatchKeepsCounters]_vars

\* Three events were ingested with no callable registered for any of them.
C13_Witness ==
    /\ AllIdle
    /\ Len(ingested) = 3
    /\ \A i \in DOMAIN ingested : ingested[i].registered = NoCallback
    /\ log = <<>>
    /\ presented_count_ = 2
    /\ discarded_count_ = 1
    /\ zero_copy_count_ = 1
    /\ ~thrown

\* --------------------------------------------------------------------- C14
\* C14: once concurrent ingest calls have all returned, last_sequence and
\* last_timestamp_ns are the sequence and the timestamp of one and the same
\* presented event.
C14_LastPairFromOneEvent ==
    (AllIdle /\ PresentedEvents /= <<>>) =>
        \E i \in DOMAIN PresentedEvents :
            /\ last_sequence_ = PresentedEvents[i].fb.sequence
            /\ last_timestamp_ns_ = PresentedEvents[i].fb.timestamp_ns

\* --------------------------------------------------------------------- C15
\* mutex_ is held only across the assignment inside set_callback: never by
\* a thread that is waiting, that is inside an ingest call or inside a
\* callable, or that has returned.
MutexHeldOnlyToAssign ==
    mutex_ /= 0 =>
        pc[mutex_] \in {"assigning", "unlock", "cb_assigning", "cb_unlock"}

\* C15: when threads inside a call keep being scheduled and every callable
\* returns, every call that has started returns (or the process has died of
\* the unlocked access of C3), in every interleaving; and set_callback never
\* waits for a callable, because the mutex it takes is never held while a
\* callable runs, so a set_callback made while another thread is inside a
\* callable, or from inside a callable, goes through.
C15_NoOperationBlocks ==
    /\ \A t \in Threads : (pc[t] /= "idle") ~> (pc[t] = "idle" \/ crashed)
    /\ []MutexHeldOnlyToAssign

\* The callable invoked for an event has called set_callback(empty) on its
\* own monitor; the call took the mutex and replaced the slot, and is at its
\* last statement.
C15_Witness ==
    \E t \in Threads :
        /\ pc[t] = "cb_unlock"
        /\ mutex_ = t
        /\ Len(log) = 1
        /\ log[1].callback = 1
        /\ callback_ = NoCallback

\* --------------------------------------------------------------------- C16
\* simulate_presented(timestamp_ns, sequence, flags) builds the event from
\* its arguments, every bit of flags kept, with the fixed refresh interval.
BuildsFromArguments ==
    \A t \in Threads : \A a \in PresentedArgs :
        simulate_presented(t, a[1], a[2], a[3]) =>
            fb'[t] = [timestamp_ns |-> a[1], sequence |-> a[2],
                      refresh_ns |-> 16666666, flags |-> a[3],
                      presented |-> TRUE]

\* No statement of a call in progress changes the event it has built.
EventKeptDuringCall ==
    \A t \in Threads :
        (pc[t] /= "idle" /\ pc'[t] /= "idle") => fb'[t] = fb[t]

\* The callable is passed the event of the call that invokes it.
DeliversBuiltEvent ==
    log' /= log =>
        \E t \in Threads :
            /\ pc[t] = "call_callback"
            /\ Len(log') = Len(log) + 1
            /\ log'[Len(log')].fb = fb[t]

\* C16: the event a presented ingest call passes to the callable has
\* presented = true, timestamp_ns and sequence equal to the call's
\* arguments, flags equal to the flags argument in every bit, reserved bits
\* included, and refresh_ns = 16,666,666.
C16_PresentedPayload ==
    [][/\ BuildsFromArguments
       /\ EventKeptDuringCall
       /\ DeliversBuiltEvent]_vars

\* The callable has been passed the event of simulate_presented(600, 6, 15),
\* whose flags have the reserved bits 1 and 2 set.
C16_Witness ==
    \E i \in DOMAIN log :
        log[i].fb = [timestamp_ns |-> 600, sequence |-> 6,
                     refresh_ns |-> 16666666, flags |-> 15,
                     presented |-> TRUE]

\* --------------------------------------------------------------------- C17
\* C17: the event a discarded ingest call passes to the callable has
\* presented = false and timestamp_ns, sequence, refresh_ns and flags all
\* zero, whatever was ingested before.
C17_DiscardedPayloadIsZero ==
    \A i \in DOMAIN log :
        ~log[i].fb.presented => log[i].fb = NoFeedback

\* --------------------------------------------------------------------- C18
\* C18: an ingest of a presented event is several steps.  While a call
\* with bit 0 set is in progress and has not reached its vsync statement, a
\* reader sees presented_count already counting the event and vsync_count
\* not yet; right after the first statement last_timestamp_ns and
\* last_sequence are still those of the previous presented event.
C18_PartialUpdateVisible ==
    \A t \in Threads :
        (pc[t] \in BeforeVsync /\ IsVsync(fb[t])) =>
            /\ presented_count_ = NumIngested(IsPresented)
            /\ vsync_count_ = NumIngested(IsVsync) - 1
            /\ (pc[t] = "last_timestamp_ns" /\ Len(PresentedEvents) > 1) =>
                  /\ last_timestamp_ns_ =
                        PresentedEvents[Len(PresentedEvents) - 1].fb.timestamp_ns
                  /\ last_sequence_ =
                        PresentedEvents[Len(PresentedEvents) - 1].fb.sequence

\* A second presented event, with bit 0 set, is being ingested:
\* presented_count is 2 while vsync_count is 0 and the last-presented
\* fields are the first event's.
C18_Witness ==
    \E t \in Threads :
        /\ pc[t] = "last_timestamp_ns"
        /\ fb[t].sequence = 1 /\ fb[t].flags = 1
        /\ presented_count_ = 2
        /\ vsync_count_ = 0
        /\ last_sequence_ = 2
        /\ last_timestamp_ns_ = 200

\* --------------------------------------------------------------------- C19
\* C19: in every reachable state, the states in the middle of concurrent
\* ingest calls included, vsync_count <= presented_count and
\* zero_copy_count <= presented_count.
C19_FlagCountsBounded ==
    /\ vsync_count_ <= presented_count_
    /\ zero_copy_count_ <= presented_count_

\* Two vsync-aligned events are in flight: both counted as presented, one
\* of them counted as vsync so far.
C19_Witness ==
    /\ presented_count_ = 2
    /\ vsync_count_ = 1
    /\ \E t, u \in Threads :
          /\ t /= u
          /\ pc[t] = "vsync_count" /\ IsVsync(fb[t])
          /\ pc[u] = "zero_copy_count" /\ IsVsync(fb[u])

\* --------------------------------------------------------------------- C20
\* No initialize call has returned true so far: the monitor has never been
\* Ready, every event so far was ingested before any initialize or after a
\* failed one.
NeverReady == \A i \in DOMAIN initialize_log : ~initialize_log[i].ret

\* C20: ingestion is not gated on the lifecycle state.  On a monitor that
\* has never been Ready, after every call the counters and the
\* last-presented fields account for every ingested event and the callable
\* registered at each call has been invoked with its event, the same
\* account that holds on a Ready monitor.
C20_IngestNotGated ==
    NeverReady =>
        /\ ~Ready
        /\ AllIdle => SameAsWithoutCallback
        /\ log = Delivered(Dispatched)

\* After initialize returned false, a presented event was ingested: it is
\* counted, recorded as the last presented event, and the registered
\* callable is running with it.
C20_Witness ==
    /\ Len(initialize_log) = 1
    /\ ~initialize_log[1].ret
    /\ ~Ready
    /\ presented_count_ = 1
    /\ last_sequence_ = 2
    /\ \E t \in Threads : pc[t] = "in_callback" /\ fb[t].sequence = 2
    /\ Len(log) = 1

====
